---- MODULE Spec2Model ----
(***************************************************************************)
(* torch_spex: SphericalExpansion.forward, VectorExpansion.forward and     *)
(* get_cartesian_vectors (src/torch_spex/spherical_expansions.py).         *)
(*                                                                         *)
(* Tensors are sequences (1-based); the indices the code stores in tensors *)
(* (local atom indices, structure ids, flat indices) keep the code's       *)
(* 0-based values, and 1 is added where a tensor is indexed.  Floating     *)
(* point values are integers and sums are exact: rounding of the           *)
(* accumulation is not modelled.  A batch with no pair at all is not       *)
(* modelled (the behaviour of the tensor library on empty tensors decides  *)
(* it).                                                                    *)
(***************************************************************************)
EXTENDS Integers, Sequences, FiniteSets

\* ------------------------------------------------------------------ bounds
\* Atoms in the whole batch, and pairs in the whole batch.
MaxAtoms == 2
MaxPairs == 2

\* ------------------------------------------------------ configuration
\* SphericalExpansion.__init__: the species vocabulary, in channel order.
all_species == <<1, 8>>
\* Species codes an atom of a batch may carry: the vocabulary and one code
\* that is absent from it.
SpeciesCodes == {1, 8, 6}
\* VectorExpansion.__init__: l_max of the radial basis.
l_max == 1
\* hypers["alchemical"]
n_pseudo_species == 2
\* Number of radial functions of degree l (a property of the radial basis).
n_radial(l) == IF l = 0 THEN 2 ELSE 1

\* ----------------------------------------------------------------- helpers
Range(s) == {s[i] : i \in DOMAIN s}

RECURSIVE SumSeq(_)
SumSeq(s) == IF s = <<>> THEN 0 ELSE Head(s) + SumSeq(Tail(s))

RECURSIVE SumOver(_, _)
SumOver(f, S) ==
    IF S = {} THEN 0
    ELSE LET x == CHOOSE y \in S : TRUE IN f[x] + SumOver(f, S \ {x})

Min(S) == CHOOSE x \in S : \A y \in S : x <= y

RECURSIVE SortedSeq(_)
SortedSeq(S) ==
    IF S = {} THEN <<>> ELSE LET m == Min(S) IN <<m>> \o SortedSeq(S \ {m})

\* torch.unique(x): the distinct values of x, ascending.
TorchUnique(x) == SortedSeq(Range(x))

\* torch.unique(x, return_counts=True)[1], given the distinct values u
CountsIn(x, u) == [k \in 1..Len(u) |-> Cardinality({i \in DOMAIN x : x[i] = u[k]})]

TorchUniqueCounts(x) == CountsIn(x, TorchUnique(x))

\* torch.unique(x, return_inverse=True)[1], given the distinct values u: for
\* each element, the 0-based position of its value among them.
InverseIn(x, u) == [p \in 1..Len(x) |-> (CHOOSE k \in 1..Len(u) : u[k] = x[p]) - 1]

TorchUniqueInverse(x) == InverseIn(x, TorchUnique(x))

\* torch.hstack((torch.tensor([0]), counts[:-1])).cumsum(0)
CentersOffsetsPerStructure(counts) ==
    [k \in 1..Len(counts) |-> SumSeq(SubSeq(counts, 1, k - 1))]

\* offsets[inverse_idx]; -1 stands for an index outside the table.
LookUpOffsets(offsets, inverse_idx) ==
    [p \in 1..Len(inverse_idx) |->
        IF inverse_idx[p] + 1 \in DOMAIN offsets THEN offsets[inverse_idx[p] + 1] ELSE -1]

\* ------------------------------------------------------------- the batch
\* A batch is the record of forward's arguments:
\*   species, centers, structure_centers           one entry per atom
\*   pairs, structure_pairs, cell_shifts, direction_vectors  one per pair
NAtoms(b) == Len(b.species)
NPairs(b) == Len(b.pairs)

Failed == [status |-> "error"]

\* ------------------------------------------------- get_cartesian_vectors
\* pairs_offset of get_cartesian_vectors: the cumulative atom counts of the
\* structures that own atoms, looked up at each pair's position among the
\* structures that own pairs.
CartesianPairsOffset(b) ==
    LookUpOffsets(CentersOffsetsPerStructure(TorchUniqueCounts(b.structure_centers)),
                  TorchUniqueInverse(b.structure_pairs))

\* shifted_pairs_idx = pairs + pairs_offset[:, None]
ShiftedPairsIdx(b, pairs_offset) ==
    [p \in 1..NPairs(b) |->
        <<b.pairs[p][1] + pairs_offset[p], b.pairs[p][2] + pairs_offset[p]>>]

\* The block get_cartesian_vectors returns: the direction vectors with one
\* sample per pair.  An index outside the species tensor is an IndexError.
CartesianBlock(b, pairs_offset, shifted_pairs_idx) ==
    IF \E p \in 1..NPairs(b) :
            \/ pairs_offset[p] < 0
            \/ shifted_pairs_idx[p][1] + 1 \notin DOMAIN b.species
            \/ shifted_pairs_idx[p][2] + 1 \notin DOMAIN b.species
    THEN Failed
    ELSE [status  |-> "ok",
          values  |-> b.direction_vectors,
          samples |->
            [p \in 1..NPairs(b) |->
                [structure        |-> b.structure_pairs[p],
                 center           |-> b.pairs[p][1],
                 neighbor         |-> b.pairs[p][2],
                 species_center   |-> b.species[shifted_pairs_idx[p][1] + 1],
                 species_neighbor |-> b.species[shifted_pairs_idx[p][2] + 1],
                 cell             |-> b.cell_shifts[p]]]]

CartesianWithOffset(b, pairs_offset) ==
    CartesianBlock(b, pairs_offset, ShiftedPairsIdx(b, pairs_offset))

get_cartesian_vectors(b) == CartesianWithOffset(b, CartesianPairsOffset(b))

\* ------------------------------------------------------------- providers
\* The radial basis function n of degree l at distance r.
RadialValue(r, l, n) == r * (l + 1) + n

\* The weight of neighbor species a_j in pseudo species alpha.
CombinationWeight(a_j, alpha) ==
    (CHOOSE i \in DOMAIN all_species : all_species[i] = a_j) + alpha

\* What a call of the radial basis returns is described by its shape:
\*   count  the number of per-degree arrays
\*   at     a degree whose array has the leading dimension lead (-1: none);
\*          every other array has one row per input pair.
ContractShape(b) == [count |-> l_max + 1, at |-> -1, lead |-> NPairs(b)]

RadialShapes(b) ==
    {ContractShape(b)}
    \cup {[count |-> c, at |-> -1, lead |-> NPairs(b)] : c \in {l_max, l_max + 2}}
    \cup {[count |-> l_max + 1, at |-> l, lead |-> n] :
            l \in 0..l_max, n \in {1, NPairs(b) + 1} \ {NPairs(b)}}

\* One row of a radial array of degree l: [n_radial(l)], or in alchemical
\* mode [n_pseudo, n_radial(l)].
RadialRow(rp, aj, l, alch) ==
    IF alch
    THEN [alpha \in 1..n_pseudo_species |->
            [n \in 1..n_radial(l) |-> CombinationWeight(aj, alpha) * RadialValue(rp, l, n - 1)]]
    ELSE [n \in 1..n_radial(l) |-> RadialValue(rp, l, n - 1)]

\* RadialBasis.forward(r, samples_metadata): per degree l an array
\* [rows, n_radial(l)], or [rows, n_pseudo, n_radial(l)] in alchemical mode.
radial_basis_calculator(r, samples, alch, shape) ==
    IF alch /\ \E p \in DOMAIN samples : samples[p].species_neighbor \notin Range(all_species)
    THEN Failed
    ELSE [status |-> "ok",
          arrays |->
            [l1 \in 1..shape.count |->
                [p \in 1..(IF l1 - 1 = shape.at THEN shape.lead ELSE Len(r)) |->
                    IF p \in DOMAIN r
                    THEN RadialRow(r[p], samples[p].species_neighbor, l1 - 1, alch)
                    ELSE RadialRow(1, all_species[1], l1 - 1, alch)]]]

\* sphericart SphericalHarmonics.compute followed by torch.split: per
\* degree l an array [n_pairs, 2l+1].
spherical_harmonics_calculator(vectors) ==
    [l1 \in 1..(l_max + 1) |->
        [p \in 1..Len(vectors) |->
            [mi \in 1..(2 * (l1 - 1) + 1) |-> vectors[p] + (l1 - 1) + mi]]]

\* ------------------------------------------------- VectorExpansion.forward
\* Broadcasting of two leading dimensions; -1 when they do not broadcast.
BroadcastRows(x, y) ==
    IF x = y THEN x ELSE IF x = 1 THEN y ELSE IF y = 1 THEN x ELSE -1

\* Row p of an array with `rows` rows, as broadcasting reads it.
BroadcastRow(rows, p) == IF rows = 1 THEN 1 ELSE p

\* radial_basis_l[:, None, ...] * spherical_harmonics_l[:, :, None ...],
\* reshaped to [rows, 2l+1, n_alpha * n_max_l].
BroadcastProduct(l, radial_basis_l, spherical_harmonics_l, rows, n_alpha, n_max_l, alch) ==
    [p \in 1..rows |->
        [mi \in 1..(2 * l + 1) |->
            [k \in 1..(n_alpha * n_max_l) |->
                IF alch
                THEN radial_basis_l[BroadcastRow(Len(radial_basis_l), p)]
                        [((k - 1) \div n_max_l) + 1][((k - 1) % n_max_l) + 1]
                     * spherical_harmonics_l[BroadcastRow(Len(spherical_harmonics_l), p)][mi]
                ELSE radial_basis_l[BroadcastRow(Len(radial_basis_l), p)][k]
                     * spherical_harmonics_l[BroadcastRow(Len(spherical_harmonics_l), p)][mi]]]]

\* The property labels of a vector expansion block.
VectorExpansionProperties(n_max_l, alch) ==
    IF alch
    THEN [k \in 1..(n_pseudo_species * n_max_l) |->
            <<-((k - 1) \div n_max_l), (k - 1) % n_max_l>>]
    ELSE [k \in 1..n_max_l |-> <<k - 1>>]

\* TensorBlock(values, samples, components, properties): refuses values
\* whose shape disagrees with the number of samples or of properties.
VectorExpansionTensorBlock(l, values, n_cols, samples, properties) ==
    IF Len(values) # Len(samples) \/ n_cols # Len(properties)
    THEN Failed
    ELSE [status     |-> "ok",
          values     |-> values,
          samples    |-> samples,
          components |-> [mi \in 1..(2 * l + 1) |-> mi - 1 - l],
          properties |-> properties]

VectorExpansionShaped(l, radial_basis_l, spherical_harmonics_l, samples, alch, rows, n_alpha, n_max_l) ==
    VectorExpansionTensorBlock(
        l,
        BroadcastProduct(l, radial_basis_l, spherical_harmonics_l, rows, n_alpha, n_max_l, alch),
        n_alpha * n_max_l,
        samples,
        VectorExpansionProperties(n_max_l, alch))

\* One pass of the loop of VectorExpansion.forward: the block of degree l.
\* Leading dimensions that do not broadcast are a RuntimeError.
VectorExpansionBlock(l, radial_basis_l, spherical_harmonics_l, samples, alch) ==
    IF BroadcastRows(Len(radial_basis_l), Len(spherical_harmonics_l)) < 0
       \/ Len(radial_basis_l) = 0
    THEN Failed
    ELSE VectorExpansionShaped(
            l, radial_basis_l, spherical_harmonics_l, samples, alch,
            BroadcastRows(Len(radial_basis_l), Len(spherical_harmonics_l)),
            IF alch THEN Len(radial_basis_l[1]) ELSE 1,
            IF alch THEN Len(radial_basis_l[1][1]) ELSE Len(radial_basis_l[1]))

\* The TensorMap of the blocks, keyed by l = 0 .. len(blocks) - 1.
VectorExpansionTensorMap(vector_expansion_blocks) ==
    IF \E l1 \in DOMAIN vector_expansion_blocks : vector_expansion_blocks[l1].status # "ok"
    THEN Failed
    ELSE [status |-> "ok",
          keys   |-> [l1 \in DOMAIN vector_expansion_blocks |-> l1 - 1],
          blocks |-> vector_expansion_blocks]

\* for l, (radial_basis_l, spherical_harmonics_l) in enumerate(zip(...)): zip
\* stops at the shorter of the two.
VectorExpansionZip(radial_basis, spherical_harmonics, samples, alch) ==
    VectorExpansionTensorMap(
        [l1 \in 1..(IF Len(radial_basis) < Len(spherical_harmonics)
                    THEN Len(radial_basis) ELSE Len(spherical_harmonics)) |->
            VectorExpansionBlock(l1 - 1, radial_basis[l1], spherical_harmonics[l1],
                                 samples, alch)])

VectorExpansionOfRadial(cartesian_vectors, radial_basis, alch) ==
    IF radial_basis.status # "ok" THEN Failed
    ELSE VectorExpansionZip(radial_basis.arrays,
                            spherical_harmonics_calculator(cartesian_vectors.values),
                            cartesian_vectors.samples, alch)

VectorExpansionOfVectors(cartesian_vectors, alch, shape) ==
    IF cartesian_vectors.status # "ok" THEN Failed
    ELSE VectorExpansionOfRadial(
            cartesian_vectors,
            radial_basis_calculator(cartesian_vectors.values, cartesian_vectors.samples,
                                    alch, shape),
            alch)

\* VectorExpansion.forward with the radial basis answering in `shape`.
VectorExpansion_forward(b, alch, shape) ==
    VectorExpansionOfVectors(get_cartesian_vectors(b), alch, shape)

\* ---------------------------------------------- SphericalExpansion.forward
\* pairs_offset of forward: the same table and the same lookup as in
\* get_cartesian_vectors.
ForwardPairsOffset(b) ==
    LookUpOffsets(CentersOffsetsPerStructure(TorchUniqueCounts(b.structure_centers)),
                  TorchUniqueInverse(b.structure_pairs))

\* pairs[:, 0] + pairs_offset
AddOffset(b, pairs_offset) == [p \in 1..NPairs(b) |-> b.pairs[p][1] + pairs_offset[p]]

\* s_i_metadata_to_unique: the flat center index of every pair.
s_i_metadata_to_unique(b) == AddOffset(b, ForwardPairsOffset(b))

\* species_to_index
species_to_index(a) == (CHOOSE i \in DOMAIN all_species : all_species[i] = a) - 1

\* density_indices, from the flat center indices: the accumulator row of
\* each pair.  In discrete mode an unknown neighbor species makes the
\* dictionary lookup a KeyError.
DensityIndicesOf(flat, alch, samples_metadata) ==
    IF alch THEN [status |-> "ok", index |-> flat]
    ELSE IF \E p \in DOMAIN samples_metadata :
                samples_metadata[p].species_neighbor \notin Range(all_species)
    THEN Failed
    ELSE [status |-> "ok",
          index  |-> [p \in DOMAIN flat |->
                        flat[p] * Len(all_species)
                        + species_to_index(samples_metadata[p].species_neighbor)]]

density_indices(b, alch, samples_metadata) ==
    DensityIndicesOf(s_i_metadata_to_unique(b), alch, samples_metadata)

\* Indexed assignment (densities_l[index] = source) in the place of the
\* accumulation: row r holds the last source row whose index is r.
index_assign(n_rows, index, source) ==
    [r1 \in 1..n_rows |->
        [mi \in 1..Len(source[1]) |->
            [k \in 1..Len(source[1][1]) |->
                IF \A p \in DOMAIN index : index[p] # r1 - 1 THEN 0
                ELSE source[CHOOSE p \in DOMAIN index :
                                /\ index[p] = r1 - 1
                                /\ \A p2 \in DOMAIN index : index[p2] = r1 - 1 => p2 <= p]
                           [mi][k]]]]

\* torch.zeros(shape).index_add_(0, index, source): row r (0-based) holds
\* the sum of the source rows whose index is r.
index_add(n_rows, index, source) ==
    [r1 \in 1..n_rows |->
        [mi \in 1..Len(source[1]) |->
            [k \in 1..Len(source[1][1]) |->
                SumOver([p \in DOMAIN source |-> source[p][mi][k]],
                        {p \in DOMAIN index : index[p] = r1 - 1})]]]

\* The accumulator reshaped to (n_centers, 2l+1, -1) directly, without the
\* exchange of the species axis and the component axis.
ReshapeWithoutSwap(acc, n_centers, n_species, l, n_cols) ==
    [c \in 1..n_centers |->
        [mi \in 1..(2 * l + 1) |->
            [k \in 1..(n_species * n_cols) |->
                acc[(c - 1) * n_species
                    + (((mi - 1) * n_species * n_cols + (k - 1)) \div ((2 * l + 1) * n_cols)) + 1]
                   [((((mi - 1) * n_species * n_cols + (k - 1)) \div n_cols) % (2 * l + 1)) + 1]
                   [(((mi - 1) * n_species * n_cols + (k - 1)) % n_cols) + 1]]]]

\* reshape((n_centers, n_species, 2l+1, -1)).swapaxes(1, 2)
\*     .reshape((n_centers, 2l+1, -1)) of the discrete accumulator
SwapSpeciesAxis(acc, n_centers, n_species, l, n_cols) ==
    [c \in 1..n_centers |->
        [mi \in 1..(2 * l + 1) |->
            [k \in 1..(n_species * n_cols) |->
                acc[(c - 1) * n_species + ((k - 1) \div n_cols) + 1][mi][((k - 1) % n_cols) + 1]]]]

\* densities_l of degree l: the accumulator after index_add_ and the
\* reshape that follows.  index_add_ refuses an index of another length
\* than the source and an index outside the accumulator.
densities(b, alch, index, expanded_vectors_l, l) ==
    IF \/ Len(index) # Len(expanded_vectors_l)
       \/ \E p \in DOMAIN index :
            index[p] < 0
            \/ index[p] >= (IF alch THEN Len(b.centers) ELSE Len(b.centers) * Len(all_species))
    THEN Failed
    ELSE [status |-> "ok",
          values |->
            IF alch
            THEN index_add(Len(b.centers), index, expanded_vectors_l)
            ELSE SwapSpeciesAxis(
                    index_add(Len(b.centers) * Len(all_species), index, expanded_vectors_l),
                    Len(b.centers), Len(all_species), l, Len(expanded_vectors_l[1][1]))]

\* np.where with the comparison turned around: the rows of the atoms of
\* another species than a_i.
where_not_ai(b, a_i) ==
    SortedSeq({i - 1 : i \in {j \in DOMAIN b.species : b.species[j] # a_i}})

\* np.where(species == a_i)[0]: the 0-based rows of the atoms of species a_i.
where_ai(b, a_i) ==
    SortedSeq({i - 1 : i \in {j \in DOMAIN b.species : b.species[j] = a_i}})

\* unique_species: the channel labels.
unique_species(alch) ==
    IF alch THEN [i \in 1..n_pseudo_species |-> -(i - 1)] ELSE all_species

\* len(np.unique(vectors_l_block.properties["n"]))
CountRadial(properties) ==
    Cardinality({properties[k][Len(properties[k])] : k \in DOMAIN properties})

\* The TensorBlock of key (a_i, l, 1) from the selected rows.  np.stack
\* refuses label columns of different lengths.
SphericalExpansionTensorBlock(b, rows, densities_l, components, channels, n_n, l) ==
    IF Len(channels) * n_n # Len(densities_l[1][1]) THEN Failed
    ELSE [status     |-> "ok",
          values     |-> [i \in 1..Len(rows) |-> densities_l[rows[i] + 1]],
          samples    |-> [i \in 1..Len(rows) |->
                            <<b.structure_centers[rows[i] + 1], b.centers[rows[i] + 1]>>],
          components |-> components,
          properties |-> [k \in 1..Len(densities_l[1][1]) |->
                            <<channels[((k - 1) \div n_n) + 1], (k - 1) % n_n, l>>]]

SphericalExpansionBlock(b, alch, densities_l, vectors_l_block, a_i, l) ==
    SphericalExpansionTensorBlock(b, where_ai(b, a_i), densities_l,
                                  vectors_l_block.components, unique_species(alch),
                                  CountRadial(vectors_l_block.properties), l)

\* The TensorMap of the blocks, keys l-major and a_i-minor.
SphericalExpansionTensorMap(blocks) ==
    IF \E q \in DOMAIN blocks : blocks[q].status # "ok" THEN Failed
    ELSE [status |-> "ok",
          keys   |-> [q \in DOMAIN blocks |->
                        <<all_species[((q - 1) % Len(all_species)) + 1],
                          (q - 1) \div Len(all_species), 1>>],
          blocks |-> blocks]

\* The loop that constructs the TensorMap object.
SphericalExpansionOfDensities(b, alch, expanded_vectors, dens) ==
    IF \E l1 \in DOMAIN dens : dens[l1].status # "ok" THEN Failed
    ELSE SphericalExpansionTensorMap(
            [q \in 1..((l_max + 1) * Len(all_species)) |->
                SphericalExpansionBlock(
                    b, alch,
                    dens[((q - 1) \div Len(all_species)) + 1].values,
                    expanded_vectors.blocks[((q - 1) \div Len(all_species)) + 1],
                    all_species[((q - 1) % Len(all_species)) + 1],
                    (q - 1) \div Len(all_species))])

SphericalExpansionOfIndices(b, alch, expanded_vectors, idx) ==
    IF idx.status # "ok" THEN Failed
    ELSE SphericalExpansionOfDensities(
            b, alch, expanded_vectors,
            [l1 \in 1..(l_max + 1) |->
                densities(b, alch, idx.index, expanded_vectors.blocks[l1].values, l1 - 1)])

\* forward after the vector expansion: a block (l=0 .. l_max) that the
\* vector expansion does not hold is an error of the TensorMap lookup.
SphericalExpansionOfVectors(b, alch, expanded_vectors) ==
    IF expanded_vectors.status # "ok" THEN Failed
    ELSE IF Len(expanded_vectors.blocks) < l_max + 1 THEN Failed
    ELSE SphericalExpansionOfIndices(
            b, alch, expanded_vectors,
            density_indices(b, alch, expanded_vectors.blocks[1].samples))

\* SphericalExpansion.forward with the radial basis answering in `shape`.
SphericalExpansion_forward(b, alch, shape) ==
    SphericalExpansionOfVectors(b, alch, VectorExpansion_forward(b, alch, shape))

\* ------------------------------------------------------------ the machine
VARIABLES
    species,            \* forward's arguments: the batch
    centers,
    structure_centers,
    pairs,
    structure_pairs,
    cell_shifts,
    direction_vectors,
    is_alchemical,      \* set by __init__ from the hypers
    pc,                 \* "ready", "vector_expansion", "spherical_expansion"
    radial_shape,       \* the shape in which the radial basis answered
    returned            \* what the call returned, or Failed

vars == <<species, centers, structure_centers, pairs, structure_pairs, cell_shifts,
          direction_vectors, is_alchemical, pc, radial_shape, returned>>

Batch ==
    [species           |-> species,
     centers           |-> centers,
     structure_centers |-> structure_centers,
     pairs             |-> pairs,
     structure_pairs   |-> structure_pairs,
     cell_shifts       |-> cell_shifts,
     direction_vectors |-> direction_vectors]

\* The atom counts of the structures of a batch: at most MaxAtoms atoms.
StructureSizes ==
    {sz \in UNION {[1..k -> 1..MaxAtoms] : k \in 1..MaxAtoms} : SumSeq(sz) <= MaxAtoms}

\* The pairs a neighbor list may hold for structures of these sizes:
\* <<structure, center, neighbor>>, local indices from 0.  An atom pairs
\* with itself through one periodic image.
PairEntries(sz) ==
    {e \in (0..(Len(sz) - 1)) \X (0..(MaxAtoms - 1)) \X (0..(MaxAtoms - 1)) :
        e[2] < sz[e[1] + 1] /\ e[3] < sz[e[1] + 1]}

EntryLess(e, f) ==
    \/ e[1] < f[1]
    \/ e[1] = f[1] /\ e[2] < f[2]
    \/ e[1] = f[1] /\ e[2] = f[2] /\ e[3] < f[3]

\* A neighbor list: 1..MaxPairs distinct pairs, structure after structure
\* and center after center.
PairLists(sz) ==
    {ps \in UNION {[1..n -> PairEntries(sz)] : n \in 1..MaxPairs} :
        \A p \in 1..(Len(ps) - 1) : EntryLess(ps[p], ps[p + 1])}

\* The batch-flat structure id and local index of every atom.
StructureOfAtoms(sz) ==
    [a \in 1..SumSeq(sz) |->
        (CHOOSE k \in 1..Len(sz) :
            SumSeq(SubSeq(sz, 1, k - 1)) < a /\ a <= SumSeq(SubSeq(sz, 1, k))) - 1]

LocalIndexOfAtoms(sz) ==
    LET st == StructureOfAtoms(sz)
    IN  [a \in 1..SumSeq(sz) |-> a - 1 - SumSeq(SubSeq(sz, 1, st[a]))]

\* The cell shift of a pair: the periodic image for a pair of an atom with
\* itself, the cell itself otherwise.
CellShiftOf(e) == IF e[2] = e[3] THEN 1 ELSE 0

\* The direction vector of a pair, fixed by its two atoms.
DirectionOf(e) == 1 + ((e[2] + e[3]) % 2)

Init ==
    \E sz \in StructureSizes :
      \E ps \in PairLists(sz) :
        \E sp \in [1..SumSeq(sz) -> SpeciesCodes] :
          /\ species = sp
          /\ structure_centers = StructureOfAtoms(sz)
          /\ centers = LocalIndexOfAtoms(sz)
          /\ pairs = [p \in 1..Len(ps) |-> <<ps[p][2], ps[p][3]>>]
          /\ structure_pairs = [p \in 1..Len(ps) |-> ps[p][1]]
          /\ cell_shifts = [p \in 1..Len(ps) |-> CellShiftOf(ps[p])]
          /\ direction_vectors = [p \in 1..Len(ps) |-> DirectionOf(ps[p])]
          /\ is_alchemical \in BOOLEAN
          /\ pc = "ready"
          /\ radial_shape = ContractShape([pairs |-> ps])
          /\ returned = Failed

\* A call of VectorExpansion.forward on the batch.
VectorExpansionForward ==
    /\ pc = "ready"
    /\ \E shape \in RadialShapes(Batch) :
        /\ radial_shape' = shape
        /\ returned' = VectorExpansion_forward(Batch, is_alchemical, shape)
    /\ pc' = "vector_expansion"
    /\ UNCHANGED <<species, centers, structure_centers, pairs, structure_pairs,
                   cell_shifts, direction_vectors, is_alchemical>>

\* A call of SphericalExpansion.forward on the batch.
SphericalExpansionForward ==
    /\ pc = "ready"
    /\ \E shape \in RadialShapes(Batch) :
        /\ radial_shape' = shape
        /\ returned' = SphericalExpansion_forward(Batch, is_alchemical, shape)
    /\ pc' = "spherical_expansion"
    /\ UNCHANGED <<species, centers, structure_centers, pairs, structure_pairs,
                   cell_shifts, direction_vectors, is_alchemical>>

Next == VectorExpansionForward \/ SphericalExpansionForward

Spec == Init /\ [][Next]_vars

\* ---------------------------------------------------------------- claims
\* What the claims speak of, read off the batch itself.
Returned == pc = "spherical_expansion" /\ returned.status = "ok"

InContract == radial_shape = ContractShape(Batch)

KnownSpecies == \A a \in DOMAIN species : species[a] \in Range(all_species)

\* The batch-flat position (from 1) of the atom (structure s, center c).
AtomAt(b, s, c) ==
    CHOOSE a \in DOMAIN b.species : b.structure_centers[a] = s /\ b.centers[a] = c

\* The species of the neighbor atom of pair p.
NeighborSpecies(b, p) == b.species[AtomAt(b, b.structure_pairs[p], b.pairs[p][2])]

\* The pairs whose center is the atom (structure s, center c).
PairsOf(b, s, c) ==
    {p \in DOMAIN b.pairs : b.structure_pairs[p] = s /\ b.pairs[p][1] = c}

Pick(seq, idx) == [i \in 1..Len(idx) |-> seq[idx[i]]]

\* Structure s of batch b as a batch of its own.
SubBatch(b, s) ==
    LET atoms == SortedSeq({a \in DOMAIN b.species : b.structure_centers[a] = s})
        prs   == SortedSeq({p \in DOMAIN b.pairs : b.structure_pairs[p] = s})
    IN  [species           |-> Pick(b.species, atoms),
         centers           |-> Pick(b.centers, atoms),
         structure_centers |-> Pick(b.structure_centers, atoms),
         pairs             |-> Pick(b.pairs, prs),
         structure_pairs   |-> Pick(b.structure_pairs, prs),
         cell_shifts       |-> Pick(b.cell_shifts, prs),
         direction_vectors |-> Pick(b.direction_vectors, prs)]

\* Batch b with its per-pair inputs reordered by the permutation pi.
PermutedBatch(b, pi) ==
    [species           |-> b.species,
     centers           |-> b.centers,
     structure_centers |-> b.structure_centers,
     pairs             |-> Pick(b.pairs, pi),
     structure_pairs   |-> Pick(b.structure_pairs, pi),
     cell_shifts       |-> Pick(b.cell_shifts, pi),
     direction_vectors |-> Pick(b.direction_vectors, pi)]

PairPermutations(n) == {pi \in [1..n -> 1..n] : Range(pi) = 1..n}

AllZero(row) == \A mi \in DOMAIN row : \A k \in DOMAIN row[mi] : row[mi][k] = 0

\* C1 (batching invariance): when forward returns on a batch whose species
\* are all in the vocabulary, every structure that owns pairs, run alone,
\* returns too, and each of its atoms has in every block the same row of
\* coefficients alone and in the batch.
C1_BatchingInvariance ==
    (Returned /\ InContract /\ KnownSpecies) =>
        \A s \in Range(structure_pairs) :
            LET sub   == SubBatch(Batch, s)
                alone == SphericalExpansion_forward(sub, is_alchemical, ContractShape(sub))
            IN  /\ alone.status = "ok"
                /\ \A q \in DOMAIN alone.keys :
                     \A i \in DOMAIN alone.blocks[q].samples :
                        \E j \in DOMAIN returned.blocks[q].samples :
                            /\ returned.keys[q] = alone.keys[q]
                            /\ returned.blocks[q].samples[j] = alone.blocks[q].samples[i]
                            /\ returned.blocks[q].values[j] = alone.blocks[q].values[i]

\* C2 (reduction correctness): in the output of forward, the value of row
\* (structure A, center i), order m, channel c, radial index n of degree l
\* is the sum of the vector expansion's values at (m, n) over exactly the
\* pairs of structure A and center i whose channel is c (in alchemical mode
\* every pair of the center feeds every pseudo species).
C2_ReductionCorrect ==
    Returned =>
        LET ev == VectorExpansion_forward(Batch, is_alchemical, radial_shape)
        IN  \A q \in DOMAIN returned.keys :
              LET l   == returned.keys[q][2]
                  blk == returned.blocks[q]
                  src == ev.blocks[l + 1].values
                  nr  == n_radial(l)
              IN  \A i \in DOMAIN blk.samples :
                    \A mi \in DOMAIN blk.values[i] :
                      \A k \in DOMAIN blk.values[i][mi] :
                        LET chan == (k - 1) \div nr
                            n    == (k - 1) % nr
                            col  == IF is_alchemical THEN k ELSE n + 1
                            mine == {p \in PairsOf(Batch, blk.samples[i][1], blk.samples[i][2]) :
                                        is_alchemical
                                        \/ NeighborSpecies(Batch, p) = all_species[chan + 1]}
                        IN  blk.values[i][mi][k]
                            = SumOver([p \in DOMAIN pairs |-> src[p][mi][col]], mine)

\* C3 (no-neighbor boundary): an atom that no pair has as its center has an
\* all-zero row in every block that holds it, and forward returns on every
\* batch of known species.
C3_NoNeighborZero ==
    /\ Returned =>
        \A q \in DOMAIN returned.keys :
            \A i \in DOMAIN returned.blocks[q].samples :
                LET smp == returned.blocks[q].samples[i]
                IN  PairsOf(Batch, smp[1], smp[2]) = {}
                        => AllZero(returned.blocks[q].values[i])
    /\ (pc = "spherical_expansion" /\ InContract /\ KnownSpecies)
            => returned.status = "ok"

\* C4 (completeness): when forward returns, the keys are all_species x
\* {0..l_max} x {1}, and for each degree every atom of the batch is one row
\* of the block of its species and no row of any other block.
C4_Completeness ==
    Returned =>
        /\ Range(returned.keys)
            = {<<a, l, 1>> : a \in Range(all_species), l \in 0..l_max}
        /\ Len(returned.keys) = Len(all_species) * (l_max + 1)
        /\ \A a \in DOMAIN species :
             \A q \in DOMAIN returned.keys :
                Cardinality({i \in DOMAIN returned.blocks[q].samples :
                                returned.blocks[q].samples[i]
                                    = <<structure_centers[a], centers[a]>>})
                = IF returned.keys[q][1] = species[a] THEN 1 ELSE 0
        /\ \A a \in DOMAIN species :
             \A l \in 0..l_max :
                \E q \in DOMAIN returned.keys : returned.keys[q] = <<species[a], l, 1>>

\* C5 (unknown species): forward ends in an error on every batch that
\* holds an atom whose species is not in all_species.
C5_UnknownSpeciesError ==
    (pc = "spherical_expansion" /\ ~KnownSpecies) => returned.status = "error"

\* C6 (shape invariant): the block of key (a_i, l, 1) has one row and one
\* sample per atom of species a_i in the batch, 2l+1 components, and
\* n_channels * n_radial(l) columns and property labels.
C6_ShapeInvariant ==
    Returned =>
        \A q \in DOMAIN returned.keys :
            LET a_i  == returned.keys[q][1]
                l    == returned.keys[q][2]
                blk  == returned.blocks[q]
                n_ai == Cardinality({a \in DOMAIN species : species[a] = a_i})
                n_channels == IF is_alchemical THEN n_pseudo_species ELSE Len(all_species)
            IN  /\ Len(blk.values) = n_ai
                /\ Len(blk.samples) = n_ai
                /\ Len(blk.components) = 2 * l + 1
                /\ Len(blk.properties) = n_channels * n_radial(l)
                /\ \A i \in DOMAIN blk.values :
                    /\ Len(blk.values[i]) = 2 * l + 1
                    /\ \A mi \in DOMAIN blk.values[i] :
                        Len(blk.values[i][mi]) = n_channels * n_radial(l)

\* C6 witness: forward has returned blocks in discrete mode for a batch of
\* two atoms of one species, which share a block of two rows.
C6_Witness ==
    /\ Returned
    /\ ~is_alchemical
    /\ Len(species) = 2
    /\ species[1] = species[2]
    /\ \E q \in DOMAIN returned.keys : Len(returned.blocks[q].values) = 2

\* C7 (pair-order independence): with a radial basis that answers one row
\* per pair, forward gives on every reordering of the per-pair inputs what
\* it gave on the batch: the same keys, samples, properties and values, or
\* the same failure.
C7_PairOrderIndependence ==
    (pc = "spherical_expansion" /\ radial_shape.at = -1) =>
        \A pi \in PairPermutations(Len(pairs)) :
            SphericalExpansion_forward(PermutedBatch(Batch, pi), is_alchemical, radial_shape)
                = returned

\* C7 witness: forward has returned on a batch in which two pairs of
\* different direction vectors have the same center, so that both are added
\* into the same accumulator rows and their exchange reverses the order of
\* the additions.
C7_Witness ==
    /\ Returned
    /\ radial_shape.at = -1
    /\ Len(pairs) = 2
    /\ structure_pairs[1] = structure_pairs[2]
    /\ pairs[1][1] = pairs[2][1]
    /\ direction_vectors[1] # direction_vectors[2]

\* C8 (per-degree count): a radial basis that answers with a number of
\* per-degree arrays other than l_max+1 makes forward end in an error.
C8_DegreeCountSurfaced ==
    (pc = "spherical_expansion" /\ radial_shape.count # l_max + 1)
        => returned.status = "error"

\* C9 (pair dimension): a radial basis that answers, for some degree, with
\* an array whose leading dimension is not the number of pairs makes
\* VectorExpansion.forward end in an error.
C9_PairDimensionSurfaced ==
    (pc = "vector_expansion" /\ radial_shape.at # -1 /\ radial_shape.lead # Len(pairs))
        => returned.status = "error"

\* C10 (flat center index): the flat index of every pair lies in
\* [0, n_atoms), is the batch-flat position of the atom that is the pair's
\* center, and is shared by two pairs exactly when they have the same
\* structure and local center.
C10_FlatCenterIndex ==
    pc = "spherical_expansion" =>
        LET flat == s_i_metadata_to_unique(Batch)
        IN  \A p \in DOMAIN pairs :
                /\ flat[p] \in 0..(Len(species) - 1)
                /\ flat[p] + 1 = AtomAt(Batch, structure_pairs[p], pairs[p][1])
                /\ \A p2 \in DOMAIN pairs :
                    (flat[p] = flat[p2])
                        <=> (/\ structure_pairs[p] = structure_pairs[p2]
                             /\ pairs[p][1] = pairs[p2][1])

\* The row of atom a (batch-flat position, from 1) in block blk.
RowOfAtom(blk, a) ==
    CHOOSE i \in DOMAIN blk.samples : blk.samples[i] = <<structure_centers[a], centers[a]>>

\* The pairs that the aggregation key files under flat center f and the
\* channel of neighbor species a_j.
PairsOfKey(flat, samples_metadata, f, a_j) ==
    {p \in DOMAIN flat : flat[p] = f /\ samples_metadata[p].species_neighbor = a_j}

\* The column layout of one block of degree l, whose rows are the atoms of
\* species a_i; src holds the vector expansion's values of degree l.
ColumnLayout(blk, a_i, l, src, flat, samples_metadata) ==
    /\ Len(blk.properties) = Len(all_species) * n_radial(l)
    /\ \A k \in 0..(Len(blk.properties) - 1) :
        blk.properties[k + 1]
            = <<all_species[(k \div n_radial(l)) + 1], k % n_radial(l), l>>
    /\ \A a \in DOMAIN species :
        species[a] = a_i =>
            \A mi \in 1..(2 * l + 1) :
                \A k \in 0..(Len(all_species) * n_radial(l) - 1) :
                    blk.values[RowOfAtom(blk, a)][mi][k + 1]
                    = SumOver([p \in DOMAIN src |-> src[p][mi][(k % n_radial(l)) + 1]],
                              PairsOfKey(flat, samples_metadata, a - 1,
                                         all_species[(k \div n_radial(l)) + 1]))

ColumnLayoutOf(ev, flat) ==
    \A q \in DOMAIN returned.keys :
        ColumnLayout(returned.blocks[q], returned.keys[q][1], returned.keys[q][2],
                     ev.blocks[returned.keys[q][2] + 1].values, flat,
                     ev.blocks[1].samples)

\* C11 (column layout in discrete mode): when forward returns in discrete
\* mode, in every block of degree l column k (from 0) carries the property
\* label (all_species[k div n_radial(l)], k mod n_radial(l), l), and for
\* every center and order m it holds the sum of the vector expansion's
\* values at radial index k mod n_radial(l) over the pairs that the
\* aggregation key files under that flat center and the channel of neighbor
\* species all_species[k div n_radial(l)]: species-major, radial-minor.
C11_ColumnLayout ==
    (Returned /\ ~is_alchemical) =>
        ColumnLayoutOf(VectorExpansion_forward(Batch, is_alchemical, radial_shape),
                       s_i_metadata_to_unique(Batch))

\* C11 witness: forward has returned in discrete mode on a batch in which
\* one center has a neighbor of each of the two species, so that both
\* species channels of its rows are fed, by different direction vectors.
C11_Witness ==
    /\ Returned
    /\ ~is_alchemical
    /\ InContract
    /\ Len(pairs) = 2
    /\ structure_pairs[1] = structure_pairs[2]
    /\ pairs[1][1] = pairs[2][1]
    /\ direction_vectors[1] # direction_vectors[2]
    /\ NeighborSpecies(Batch, 1) = all_species[1]
    /\ NeighborSpecies(Batch, 2) = all_species[2]

====
